---- MODULE Spec2Model ----
(***************************************************************************)
(* The HTTP JSON-RPC plugin client of control/plugin/client/httpjsonrpc.go *)
(* as a state machine: one client handle h, the package-level metric       *)
(* cache, and the requests the client puts on the wire.                    *)
(*                                                                         *)
(* Spec      one client used sequentially; every public method is one      *)
(*           atomic action.                                                *)
(* SpecWide  CollectMetrics alone, on longer requests.                      *)
(* SpecShared two client instances used in turn, sharing the cache.        *)
(* SpecConc  several goroutines on one client, inside call() or inside     *)
(*           CollectMetrics, one action per statement that touches h.id,   *)
(*           the cache or the network.                                     *)
(***************************************************************************)
EXTENDS Integers, Sequences, FiniteSets, TLC

(* ------------------------------ bounds -------------------------------- *)
\* longest metric request handed to CollectMetrics
MaxReq == 2
\* longest list of metrics in one plugin reply
MaxReply == 2
\* requests one sequential run puts on the wire
MaxCalls == 3
\* requests the goroutines of SpecConc put on the wire
MaxConcCalls == 3
\* longest metric request of SpecWide
MaxWide == 3

(* ------------------------------ domains ------------------------------- *)
Namespaces == {<<"cpu">>, <<"cpu", "load">>}
Configs == {"cfg0"}
Data == {"d1", "d2"}
PubKeys == {"pubA"}
Keys == {"k1", "k2"}
ErrorStrings == {"", "boom"}
Threads == {1, 2}

\* A requested metric (core.Metric seen through Namespace() and Config())
RequestMetrics == [ns : Namespaces, cfg : Configs]
\* A collected metric of a plugin reply (plugin.PluginMetricType with data)
PluginMetrics == [ns : Namespaces, data : Data]
\* Go's nil for a core.Metric slot / a cache miss
NilMetric == [nil |-> TRUE]
\* Go's nil *encrypter.Encrypter
NilEncrypter == [rsaPublic |-> "", Key |-> "", nil |-> TRUE]

(* ------------------------------ errors -------------------------------- *)
Err(kind, msg) == [kind |-> kind, msg |-> msg]
NilErr == Err("nil", "")
\* errors.New(text)
ErrorsNew(msg) == Err("errors.New", msg)

(* ------------------- core.JoinNamespace (core package) ---------------- *)
RECURSIVE JoinNamespace(_)
JoinNamespace(ns) ==
    IF ns = <<>> THEN "" ELSE "/" \o Head(ns) \o JoinNamespace(Tail(ns))

(* ---------------------- metricCache (cache.go) ------------------------ *)
\* the cache is a finite map from joined namespace to the last metric put
get(cache, key) ==
    IF key \in DOMAIN cache THEN cache[key] ELSE NilMetric

put(cache, key, m) ==
    [k \in DOMAIN cache \cup {key} |-> IF k = key THEN m ELSE cache[k]]

(* --------------------- encrypter / encoding packages ------------------ *)
\* Bytes are modelled by what they hold: the key they are wrapped under
\* ("plain" without an encrypter), whether they deserialize, and the value.
EmptyBytes == [enc |-> "", wf |-> FALSE, val |-> <<>>, len |-> 0]
Garbage == [enc |-> "plain", wf |-> FALSE, val |-> <<>>, len |-> 1]
WrapKey(e) == IF e = NilEncrypter THEN "plain" ELSE e.Key

\* encoder.Encode: serialize, then wrap under the session key when an
\* encrypter is attached; ok = FALSE is a serialization/encryption failure
Encode(encoder, v, ok) ==
    IF ok
    THEN [ok |-> TRUE,
          bytes |-> [enc |-> WrapKey(encoder.encrypter), wf |-> TRUE,
                     val |-> v, len |-> 1]]
    ELSE [ok |-> FALSE, bytes |-> EmptyBytes]

\* encoder.Decode: unwrap under the session key, then deserialize
Decode(encoder, b) ==
    IF b.len > 0 /\ b.wf /\ b.enc = WrapKey(encoder.encrypter)
    THEN [ok |-> TRUE, val |-> b.val]
    ELSE [ok |-> FALSE, val |-> <<>>]

\* encrypter.EncryptKey: the session key encrypted under the public key
EncryptKey(e, ok) ==
    IF ok
    THEN [ok |-> TRUE, bytes |-> [rsa |-> e.rsaPublic, key |-> e.Key]]
    ELSE [ok |-> FALSE, bytes |-> [rsa |-> "", key |-> ""]]

(* ------------------------------ constructors -------------------------- *)
\* key is the value encrypter.GenerateKey() returned (used when secure)
NewClient(pluginType, pub, secure, key) ==
    LET e == IF secure THEN [rsaPublic |-> pub, Key |-> key, nil |-> FALSE]
                       ELSE NilEncrypter
    IN [id |-> 0, pluginType |-> pluginType, encrypter |-> e,
        encoder |-> [encrypter |-> e]]

NewCollectorHttpJSONRPCClient(pub, secure, key) ==
    NewClient("collector", pub, secure, key)

NewProcessorHttpJSONRPCClient(pub, secure, key) ==
    NewClient("processor", pub, secure, key)

NewPublisherHttpJSONRPCClient(pub, secure, key) ==
    NewClient("publisher", pub, secure, key)

(* ------------------------------ state --------------------------------- *)
VARIABLES
    h,            \* the client handle: id, pluginType, encrypter, encoder
    metricCache,  \* the package-level metric cache
    wire,         \* history: [id, ok] of every request posted, in order
    last,         \* history: the most recent public operation
    pc,           \* SpecConc: where each goroutine is inside call()
    reqId,        \* SpecConc: the id each goroutine marshalled
    slot,         \* SpecConc: index in posted of each goroutine's request
    posted,       \* SpecConc: [id, ok, done, by, collect] of every request
    cm,           \* SpecConc: each goroutine's CollectMetrics frame
    inst          \* SpecShared: the other client instance, and history:
                  \* which instance is h, which instance put each cache key

vars == <<h, metricCache, wire, last, pc, reqId, slot, posted, cm, inst>>

(* --------------------------- network outcomes ------------------------- *)
\* What the exchange of one call() does: the request cannot be serialized,
\* the POST fails or times out, the response envelope does not deserialize,
\* or an envelope [Result, Error] comes back.
NoResp == [Id |-> 0, Result |-> EmptyBytes, Error |-> "", nil |-> TRUE]
Outcomes == {"marshalFail", "postFail", "decodeFail", "ok"}
Net(o, result, error) == [outcome |-> o, Result |-> result, Error |-> error]

\* the payload a plugin holding the client's session key replies with
PluginPayload(hh, v) == Encode(hh.encoder, v, TRUE).bytes

(* ------------------------------ call ---------------------------------- *)
\* mutant: the counter is never advanced
AtomicAddMutNone(v, d) == v

\* atomic.AddUint64; h.id is a uint64 and wraps at 2^64, which no run of
\* at most MaxCalls requests comes near
AtomicAddUint64(v, d) == v + d

\* call() up to its last return of an error: marshal the envelope with the
\* current id, POST it, deserialize the response envelope.
\* sent holds the request when it reached client.Post.
roundTrip(hh, method, args, net) ==
    LET req == [method |-> method, id |-> hh.id, params |-> args]
    IN  IF net.outcome = "marshalFail"
        THEN [res |-> NoResp, err |-> Err("MarshalFailed", ""), sent |-> <<>>]
        ELSE IF net.outcome = "postFail"
        THEN [res |-> NoResp, err |-> Err("PostFailed", ""), sent |-> <<req>>]
        ELSE IF net.outcome = "decodeFail"
        THEN [res |-> NoResp, err |-> Err("EnvelopeDecodeFailed", ""),
              sent |-> <<req>>]
        ELSE [res |-> [Id |-> hh.id, Result |-> net.Result,
                       Error |-> net.Error, nil |-> FALSE],
              err |-> NilErr, sent |-> <<req>>]

\* mutant: an envelope with an error string is returned as a failed call
callMutEnvelopeError(hh, method, args, net) ==
    LET x == roundTrip(hh, method, args, net)
    IN  IF x.err # NilErr
        THEN [res |-> x.res, err |-> x.err, h |-> hh, sent |-> x.sent]
        ELSE IF x.res.Error # ""
        THEN [res |-> NoResp, err |-> ErrorsNew(x.res.Error), h |-> hh,
              sent |-> x.sent]
        ELSE [res |-> x.res, err |-> NilErr,
              h |-> [hh EXCEPT !.id = AtomicAddUint64(hh.id, 1)],
              sent |-> x.sent]

\* mutant: the id advances as soon as the request was posted
callMutAdvanceOnPost(hh, method, args, net) ==
    LET x == roundTrip(hh, method, args, net)
    IN  [res |-> x.res, err |-> x.err,
         h |-> IF x.sent # <<>>
               THEN [hh EXCEPT !.id = AtomicAddUint64(hh.id, 1)] ELSE hh,
         sent |-> x.sent]

\* call(method, args): [res, err, h, sent]; the id advances only when the
\* envelope came back and deserialized
call(hh, method, args, net) ==
    LET x == roundTrip(hh, method, args, net)
    IN  IF x.err # NilErr
        THEN [res |-> x.res, err |-> x.err, h |-> hh, sent |-> x.sent]
        ELSE [res |-> x.res, err |-> NilErr,
              h |-> [hh EXCEPT !.id = AtomicAddUint64(hh.id, 1)],
              sent |-> x.sent]

(* --------------------------- public operations ------------------------ *)
\* Every operation returns
\*   [h, cache, mts, sent, called, res, ret, err]
\* called = "none" | "failed" | "ok": whether call() ran and how it ended;
\* mts is the caller's request slice when the operation returns.
Out(hh, cache, mts, sent, called, res, ret, err) ==
    [h |-> hh, cache |-> cache, mts |-> mts, sent |-> sent,
     called |-> called, res |-> res, ret |-> ret, err |-> err]

\* an operation that returns before call()
NoCall(hh, cache, mts, ret, err) ==
    Out(hh, cache, mts, <<>>, "none", NoResp, ret, err)

\* an operation that returns what call() gave it
FromCall(c, cache, mts, ret, err) ==
    Out(c.h, cache, mts, c.sent,
        IF c.err = NilErr THEN "ok" ELSE "failed", c.res, ret, err)

Ping(hh, cache, net) ==
    LET c == call(hh, "SessionState.Ping", <<>>, net)
    IN  FromCall(c, cache, <<>>, <<>>, c.err)

\* mutant: the session key is sent as it is, not encrypted
SetKeyMutPlainKey(hh, cache, encKeyOk, net) ==
    IF hh.encrypter = NilEncrypter
    THEN NoCall(hh, cache, <<>>, <<>>, Err("panic", "nil pointer dereference"))
    ELSE LET c == call(hh, "SessionState.SetKey",
                       <<[Key |-> [rsa |-> "", key |-> hh.encrypter.Key]]>>,
                       net)
         IN  FromCall(c, cache, <<>>, <<>>, c.err)

\* mutant: a client without encrypter sends a SetKey request all the same
SetKeyMutNilSends(hh, cache, encKeyOk, net) ==
    LET k == EncryptKey(hh.encrypter, encKeyOk)
    IN  IF ~k.ok
        THEN NoCall(hh, cache, <<>>, <<>>, Err("EncryptKeyFailed", ""))
        ELSE LET c == call(hh, "SessionState.SetKey", <<[Key |-> k.bytes]>>, net)
             IN  FromCall(c, cache, <<>>, <<>>, c.err)

\* h.encrypter is nil on a client built with secure = false: EncryptKey
\* dereferences it and the goroutine panics
SetKey(hh, cache, encKeyOk, net) ==
    IF hh.encrypter = NilEncrypter
    THEN NoCall(hh, cache, <<>>, <<>>, Err("panic", "nil pointer dereference"))
    ELSE LET k == EncryptKey(hh.encrypter, encKeyOk)
         IN  IF ~k.ok
             THEN NoCall(hh, cache, <<>>, <<>>, Err("EncryptKeyFailed", ""))
             ELSE LET c == call(hh, "SessionState.SetKey",
                                <<[Key |-> k.bytes]>>, net)
                  IN  FromCall(c, cache, <<>>, <<>>, c.err)

Kill(hh, cache, reason, encOk, net) ==
    LET out == Encode(hh.encoder, [Reason |-> reason], encOk)
    IN  IF ~out.ok
        THEN NoCall(hh, cache, <<>>, <<>>, Err("EncodeFailed", ""))
        ELSE LET c == call(hh, "SessionState.Kill", <<out.bytes>>, net)
             IN  FromCall(c, cache, <<>>, <<>>, c.err)

\* mutant: the metrics found in the cache are listed last slot first
FromCacheMutReversed(cache, mts) ==
    LET idx == SelectSeq([i \in 1..Len(mts) |-> i],
                 LAMBDA i : get(cache, JoinNamespace(mts[i].ns)) # NilMetric)
    IN  [k \in 1..Len(idx) |->
            get(cache, JoinNamespace(mts[idx[Len(idx) + 1 - k]].ns))]

\* mutant: the metrics found in the cache are not collected
FromCacheMutEmpty(cache, mts) == <<>>

\* the metrics found in the cache, in request order (first loop)
FromCache(cache, mts) ==
    LET idx == SelectSeq([i \in 1..Len(mts) |-> i],
                 LAMBDA i : get(cache, JoinNamespace(mts[i].ns)) # NilMetric)
    IN  [k \in 1..Len(idx) |-> get(cache, JoinNamespace(mts[idx[k]].ns))]

\* mutant: every slot is set to nil once a slot hit
NilOutHitsMutAll(cache, mts) ==
    IF \E i \in DOMAIN mts : get(cache, JoinNamespace(mts[i].ns)) # NilMetric
    THEN [i \in 1..Len(mts) |-> NilMetric] ELSE mts

\* mutant: the slots that hit are left in the slice
NilOutHitsMutKeep(cache, mts) == mts

\* the caller's slice after the first loop: every slot that hit is nil
NilOutHits(cache, mts) ==
    [i \in 1..Len(mts) |->
        IF get(cache, JoinNamespace(mts[i].ns)) # NilMetric
        THEN NilMetric ELSE mts[i]]

\* mutant: the plugin metric types are listed last slot first
FromPluginMutReversed(mts) ==
    LET left == SelectSeq(mts, LAMBDA m : m # NilMetric)
    IN  [k \in 1..Len(left) |->
            [Namespace_ |-> left[Len(left) + 1 - k].ns,
             Config_ |-> left[Len(left) + 1 - k].cfg]]

\* the plugin metric types of the slots left non-nil (second loop)
FromPlugin(mts) ==
    LET left == SelectSeq(mts, LAMBDA m : m # NilMetric)
    IN  [k \in 1..Len(left) |->
            [Namespace_ |-> left[k].ns, Config_ |-> left[k].cfg]]

\* mutant: the cache is emptied before the reply is put
PutAllMutOnlyReply(cache, ms) ==
    IF ms = <<>> THEN cache
    ELSE [k \in {JoinNamespace(ms[i].ns) : i \in DOMAIN ms} |->
            ms[CHOOSE i \in DOMAIN ms :
                 /\ JoinNamespace(ms[i].ns) = k
                 /\ \A j \in DOMAIN ms :
                       JoinNamespace(ms[j].ns) = k => j <= i]]

\* mutant: the reply is not put into the cache
PutAllMutNoPut(cache, ms) == cache

\* the cache after putting every metric of the reply, in reply order
RECURSIVE PutAll(_, _)
PutAll(cache, ms) ==
    IF ms = <<>> THEN cache
    ELSE PutAll(put(cache, JoinNamespace(Head(ms).ns), Head(ms)), Tail(ms))

\* mutant: a failing call still returns the metrics found in the cache
CollectMetricsMutKeepHits(hh, cache, mts, encOk, net) ==
    LET fromCache  == FromCache(cache, mts)
        mts1       == NilOutHits(cache, mts)
        fromPlugin == FromPlugin(mts1)
        out == Encode(hh.encoder, [PluginMetricTypes |-> fromPlugin], encOk)
        c   == call(hh, "Collector.CollectMetrics", <<out.bytes>>, net)
        mtr == Decode(hh.encoder, c.res.Result)
    IN  IF Len(fromPlugin) = 0
        THEN NoCall(hh, cache, mts1, fromCache, NilErr)
        ELSE IF ~out.ok
        THEN NoCall(hh, cache, mts1, fromCache, Err("EncodeFailed", ""))
        ELSE IF c.err # NilErr
        THEN FromCall(c, cache, mts1, fromCache, c.err)
        ELSE IF c.res.Result.len = 0
        THEN FromCall(c, cache, mts1, fromCache,
                      ErrorsNew("Invalid response: result is 0"))
        ELSE IF ~mtr.ok
        THEN FromCall(c, cache, mts1, fromCache, Err("DecodeFailed", ""))
        ELSE FromCall(c, PutAll(cache, mtr.val.PluginMetrics), mts1,
                      fromCache \o mtr.val.PluginMetrics, NilErr)

\* mutant: an empty result payload counts as a reply without metrics
CollectMetricsMutEmptyOk(hh, cache, mts, encOk, net) ==
    LET fromCache  == FromCache(cache, mts)
        mts1       == NilOutHits(cache, mts)
        fromPlugin == FromPlugin(mts1)
        out == Encode(hh.encoder, [PluginMetricTypes |-> fromPlugin], encOk)
        c   == call(hh, "Collector.CollectMetrics", <<out.bytes>>, net)
        mtr == Decode(hh.encoder, c.res.Result)
    IN  IF Len(fromPlugin) = 0
        THEN NoCall(hh, cache, mts1, fromCache, NilErr)
        ELSE IF ~out.ok
        THEN NoCall(hh, cache, mts1, <<>>, Err("EncodeFailed", ""))
        ELSE IF c.err # NilErr
        THEN FromCall(c, cache, mts1, <<>>, c.err)
        ELSE IF c.res.Result.len = 0
        THEN FromCall(c, cache, mts1, fromCache, NilErr)
        ELSE IF ~mtr.ok
        THEN FromCall(c, cache, mts1, <<>>, Err("DecodeFailed", ""))
        ELSE FromCall(c, PutAll(cache, mtr.val.PluginMetrics), mts1,
                      fromCache \o mtr.val.PluginMetrics, NilErr)

CollectMetrics(hh, cache, mts, encOk, net) ==
    LET fromCache  == FromCache(cache, mts)
        mts1       == NilOutHits(cache, mts)
        fromPlugin == FromPlugin(mts1)
    IN  IF Len(fromPlugin) > 0
        THEN LET out == Encode(hh.encoder,
                               [PluginMetricTypes |-> fromPlugin], encOk)
             IN  IF ~out.ok
                 THEN NoCall(hh, cache, mts1, <<>>, Err("EncodeFailed", ""))
                 ELSE LET c == call(hh, "Collector.CollectMetrics",
                                    <<out.bytes>>, net)
                          mtr == Decode(hh.encoder, c.res.Result)
                      IN  IF c.err # NilErr
                          THEN FromCall(c, cache, mts1, <<>>, c.err)
                          ELSE IF c.res.Result.len = 0
                          THEN FromCall(c, cache, mts1, <<>>,
                                 ErrorsNew("Invalid response: result is 0"))
                          ELSE IF ~mtr.ok
                          THEN FromCall(c, cache, mts1, <<>>,
                                        Err("DecodeFailed", ""))
                          ELSE FromCall(c, PutAll(cache, mtr.val.PluginMetrics),
                                        mts1,
                                        fromCache \o mtr.val.PluginMetrics,
                                        NilErr)
        ELSE NoCall(hh, cache, mts1, fromCache, NilErr)

GetMetricTypes(hh, cache, net) ==
    LET c   == call(hh, "Collector.GetMetricTypes", <<>>, net)
        mtr == Decode(hh.encoder, c.res.Result)
    IN  IF c.err # NilErr
        THEN FromCall(c, cache, <<>>, <<>>, c.err)
        ELSE IF ~mtr.ok
        THEN FromCall(c, cache, <<>>, <<>>, Err("DecodeFailed", ""))
        ELSE FromCall(c, cache, <<>>, mtr.val.PluginMetricTypes, NilErr)

\* mutant: an empty result payload is handed to the decoder
GetConfigPolicyMutDecode(hh, cache, net) ==
    LET c   == call(hh, "SessionState.GetConfigPolicy", <<>>, net)
        cpr == Decode(hh.encoder, c.res.Result)
    IN  IF c.err # NilErr
        THEN FromCall(c, cache, <<>>, <<>>, c.err)
        ELSE IF ~cpr.ok
        THEN FromCall(c, cache, <<>>, <<>>, Err("DecodeFailed", ""))
        ELSE FromCall(c, cache, <<>>, <<cpr.val.Policy>>, NilErr)

GetConfigPolicy(hh, cache, net) ==
    LET c   == call(hh, "SessionState.GetConfigPolicy", <<>>, net)
        cpr == Decode(hh.encoder, c.res.Result)
    IN  IF c.err # NilErr
        THEN FromCall(c, cache, <<>>, <<>>, c.err)
        ELSE IF c.res.Result.len = 0
        THEN FromCall(c, cache, <<>>, <<>>, ErrorsNew(c.res.Error))
        ELSE IF ~cpr.ok
        THEN FromCall(c, cache, <<>>, <<>>, Err("DecodeFailed", ""))
        ELSE FromCall(c, cache, <<>>, <<cpr.val.Policy>>, NilErr)

\* an encoding failure returns nil, not the error
Publish(hh, cache, args, encOk, net) ==
    LET out == Encode(hh.encoder, args, encOk)
    IN  IF ~out.ok
        THEN NoCall(hh, cache, <<>>, <<>>, NilErr)
        ELSE LET c == call(hh, "Publisher.Publish", <<out.bytes>>, net)
             IN  FromCall(c, cache, <<>>, <<>>, c.err)

Process(hh, cache, args, encOk, net) ==
    LET out == Encode(hh.encoder, args, encOk)
    IN  IF ~out.ok
        THEN NoCall(hh, cache, <<>>, <<>>, Err("EncodeFailed", ""))
        ELSE LET c == call(hh, "Processor.Process", <<out.bytes>>, net)
                 reply == Decode(hh.encoder, c.res.Result)
             IN  IF c.err # NilErr
                 THEN FromCall(c, cache, <<>>, <<>>, c.err)
                 ELSE IF ~reply.ok
                 THEN FromCall(c, cache, <<>>, <<>>, Err("DecodeFailed", ""))
                 ELSE FromCall(c, cache, <<>>,
                        <<reply.val.ContentType, reply.val.Content>>, NilErr)

(* ------------------------------ inputs -------------------------------- *)
\* the result payload of a response envelope: no bytes, bytes that do not
\* deserialize, or the reply v encoded by a plugin holding the session key
Shapes == {"empty", "garbage", "reply"}
Payload(hh, shape, v) ==
    IF shape = "empty" THEN EmptyBytes
    ELSE IF shape = "garbage" THEN Garbage
    ELSE PluginPayload(hh, v)

\* the envelope is read only when the exchange succeeds
Canonical(o, e, shape) == o = "ok" \/ (e = "" /\ shape = "empty")

MetricTypesReply ==
    [PluginMetricTypes |-> <<[Namespace_ |-> <<"cpu">>, Config_ |-> "cfg0"]>>]
PolicyReply == [Policy |-> "policyA"]
ProcessorReply == [ContentType |-> "ct", Content |-> "out"]
ContentArgs == [ContentType |-> "ct", Content |-> "in", Config |-> "cfg0"]

(* ------------------------------ Spec ---------------------------------- *)
Clients ==
    {NewCollectorHttpJSONRPCClient(p, s, k) :
         p \in PubKeys, s \in BOOLEAN, k \in Keys}
    \cup {NewProcessorHttpJSONRPCClient(p, s, k) :
         p \in PubKeys, s \in BOOLEAN, k \in Keys}
    \cup {NewPublisherHttpJSONRPCClient(p, s, k) :
         p \in PubKeys, s \in BOOLEAN, k \in Keys}

\* the record of "no operation has returned since the caller last looked"
NoOperation(hh, cache) ==
    [op |-> "none", arg |-> <<>>, encOk |-> TRUE, h0 |-> hh, cache0 |-> cache,
     out |-> NoCall(hh, cache, <<>>, <<>>, NilErr)]

\* a goroutine that has not called CollectMetrics
NoCollect ==
    [stage |-> "none", ns |-> <<>>, answer |-> NilMetric, ret |-> <<>>,
     err |-> NilErr]

\* a caller that holds one client instance only
OneInstance == [cur |-> 1, other |-> <<>>, putBy |-> <<>>]

Init ==
    /\ h \in Clients
    /\ metricCache = <<>>
    /\ wire = <<>>
    /\ last = NoOperation(h, <<>>)
    /\ pc = [t \in Threads |-> "idle"]
    /\ reqId = [t \in Threads |-> 0]
    /\ slot = [t \in Threads |-> 0]
    /\ posted = <<>>
    /\ cm = [t \in Threads |-> NoCollect]
    /\ inst = OneInstance

\* the client is used sequentially: an operation starts when the one before
\* it has returned to the caller
Idle == last.op = "none"

\* the state after a public operation returned r; encOk is FALSE when the
\* operation tried to encode its arguments (or encrypt the key) and failed
Return(op, arg, encOk, r) ==
    /\ Len(wire) + Len(r.sent) <= MaxCalls
    /\ h' = r.h
    /\ metricCache' = r.cache
    /\ wire' = wire \o [i \in 1..Len(r.sent) |->
                          [id |-> r.sent[i].id, ok |-> r.called = "ok"]]
    /\ last' = [op |-> op, arg |-> arg, encOk |-> encOk, h0 |-> h,
                cache0 |-> metricCache, out |-> r]
    /\ UNCHANGED <<pc, reqId, slot, posted, cm, inst>>

DoPing ==
    /\ Idle
    /\ \E o \in Outcomes, e \in ErrorStrings :
        /\ Canonical(o, e, "empty")
        /\ Return("Ping", <<>>, TRUE, Ping(h, metricCache, Net(o, EmptyBytes, e)))

DoSetKey ==
    /\ Idle
    /\ \E encKeyOk \in BOOLEAN, o \in Outcomes, e \in ErrorStrings :
        /\ Canonical(o, e, "empty")
        /\ IF h.encrypter = NilEncrypter
           THEN encKeyOk
           ELSE encKeyOk \/ o = "marshalFail"
        /\ Return("SetKey", <<>>, encKeyOk,
                  SetKey(h, metricCache, encKeyOk, Net(o, EmptyBytes, e)))

DoKill ==
    /\ Idle
    /\ \E encOk \in BOOLEAN, o \in Outcomes, e \in ErrorStrings :
        /\ Canonical(o, e, "empty")
        /\ encOk \/ o = "marshalFail"
        /\ Return("Kill", <<"reason">>, encOk,
                  Kill(h, metricCache, "reason", encOk, Net(o, EmptyBytes, e)))

\* CollectMetrics(mts) under every encoding outcome, network outcome and
\* plugin reply
CollectWith(mts) ==
    \E encOk \in BOOLEAN, o \in Outcomes, e \in ErrorStrings,
       shape \in Shapes, k \in 0..MaxReply :
      LET needsCall == FromPlugin(NilOutHits(metricCache, mts)) # <<>>
      IN  /\ Canonical(o, e, shape)
          /\ shape = "reply" \/ k = 0
          /\ IF needsCall THEN encOk \/ o = "marshalFail"
                          ELSE encOk /\ o = "marshalFail"
          /\ \E reply \in [1..k -> PluginMetrics] :
               Return("CollectMetrics", mts, encOk,
                      CollectMetrics(h, metricCache, mts, encOk,
                          Net(o, Payload(h, shape, [PluginMetrics |-> reply]), e)))

DoCollectMetrics ==
    /\ Idle
    /\ h.pluginType = "collector"
    /\ \E n \in 0..MaxReq : \E mts \in [1..n -> RequestMetrics] :
         CollectWith(mts)

\* the caller repeats, straight away, a single-namespace CollectMetrics
\* that succeeded and left the namespace cached, with a request equal to
\* the one it made last (a fresh slice: the last call may have set the
\* slot of its slice to nil)
DoCollectMetricsAgain ==
    /\ last.op = "CollectMetrics"
    /\ Len(last.arg) = 1
    /\ last.out.err = NilErr
    /\ JoinNamespace(last.arg[1].ns) \in DOMAIN metricCache
    /\ CollectWith(last.arg)

DoGetMetricTypes ==
    /\ Idle
    /\ h.pluginType = "collector"
    /\ \E o \in Outcomes, e \in ErrorStrings, shape \in Shapes :
        /\ Canonical(o, e, shape)
        /\ Return("GetMetricTypes", <<>>, TRUE,
                  GetMetricTypes(h, metricCache,
                      Net(o, Payload(h, shape, MetricTypesReply), e)))

DoGetConfigPolicy ==
    /\ Idle
    /\ \E o \in Outcomes, e \in ErrorStrings, shape \in Shapes :
        /\ Canonical(o, e, shape)
        /\ Return("GetConfigPolicy", <<>>, TRUE,
                  GetConfigPolicy(h, metricCache,
                      Net(o, Payload(h, shape, PolicyReply), e)))

DoPublish ==
    /\ Idle
    /\ h.pluginType = "publisher"
    /\ \E encOk \in BOOLEAN, o \in Outcomes, e \in ErrorStrings :
        /\ Canonical(o, e, "empty")
        /\ encOk \/ o = "marshalFail"
        /\ Return("Publish", ContentArgs, encOk,
                  Publish(h, metricCache, ContentArgs, encOk,
                          Net(o, EmptyBytes, e)))

DoProcess ==
    /\ Idle
    /\ h.pluginType = "processor"
    /\ \E encOk \in BOOLEAN, o \in Outcomes, e \in ErrorStrings,
          shape \in Shapes :
        /\ Canonical(o, e, shape)
        /\ encOk \/ o = "marshalFail"
        /\ Return("Process", ContentArgs, encOk,
                  Process(h, metricCache, ContentArgs, encOk,
                          Net(o, Payload(h, shape, ProcessorReply), e)))

\* the caller has taken what the operation returned and goes on; nothing
\* follows a panic
Returned ==
    /\ last.op # "none"
    /\ last.out.err.kind # "panic"
    /\ last' = NoOperation(h, metricCache)
    /\ UNCHANGED <<h, metricCache, wire, pc, reqId, slot, posted, cm, inst>>

Next ==
    \/ Returned
    \/ DoPing
    \/ DoSetKey
    \/ DoKill
    \/ DoCollectMetrics
    \/ DoCollectMetricsAgain
    \/ DoGetMetricTypes
    \/ DoGetConfigPolicy
    \/ DoPublish
    \/ DoProcess

Spec == Init /\ [][Next]_vars

(* ------------------------------ SpecWide ------------------------------ *)
\* CollectMetrics alone, on longer requests with two configurations,
\* against a plugin that answers every metric type it is asked for.
WideConfigs == {"cfg0", "cfg1"}
WideRequests == [ns : Namespaces, cfg : WideConfigs]

\* the reply of a plugin that collects each requested type once, with
\* data d
Answer(types, d) ==
    [PluginMetrics |->
        [i \in 1..Len(types) |-> [ns |-> types[i].Namespace_, data |-> d]]]

\* CollectMetrics(mts) when encoding, serializing or posting fails, or the
\* plugin answers what it is asked
CollectAnswered(mts) ==
    \E encOk \in BOOLEAN, o \in {"marshalFail", "postFail", "ok"}, d \in Data :
      LET types == FromPlugin(NilOutHits(metricCache, mts))
      IN  /\ IF types # <<>> THEN encOk \/ o = "marshalFail"
                             ELSE encOk /\ o = "marshalFail"
          /\ (types = <<>> \/ o # "ok") => d = "d1"
          /\ Return("CollectMetrics", mts, encOk,
                    CollectMetrics(h, metricCache, mts, encOk,
                        Net(o, IF o = "ok"
                               THEN PluginPayload(h, Answer(types, d))
                               ELSE EmptyBytes, "")))

DoCollectWide ==
    /\ Idle
    /\ h.pluginType = "collector"
    /\ \E n \in 0..MaxWide : \E mts \in [1..n -> WideRequests] :
         CollectAnswered(mts)

NextWide ==
    \/ Returned
    \/ DoCollectWide

SpecWide == Init /\ [][NextWide]_vars

(* ------------------------------ SpecShared ---------------------------- *)
\* A caller holding two collector clients (two endpoints or plugins) and
\* using them in turn. h is the instance in use, inst.other the one set
\* aside; metricCache is the one package-level variable both run on.
\* inst.cur (1 or 2: which instance h is) and inst.putBy (joined
\* namespace -> instance whose CollectMetrics put it last) are history.
Collectors == {c \in Clients : c.pluginType = "collector"}

InitShared ==
    /\ h \in Collectors
    /\ inst \in {[cur |-> 1, other |-> c, putBy |-> <<>>] : c \in Collectors}
    /\ metricCache = <<>>
    /\ wire = <<>>
    /\ last = NoOperation(h, <<>>)
    /\ pc = [t \in Threads |-> "idle"]
    /\ reqId = [t \in Threads |-> 0]
    /\ slot = [t \in Threads |-> 0]
    /\ posted = <<>>
    /\ cm = [t \in Threads |-> NoCollect]

DoCollectShared ==
    /\ Idle
    /\ \E n \in 0..MaxReq : \E mts \in [1..n -> RequestMetrics] :
         CollectAnswered(mts)

\* the joined namespaces the operation recorded in l put into the cache
PutKeys(l) ==
    IF l.op = "CollectMetrics" /\ l.out.called = "ok" /\ l.out.err = NilErr
    THEN {JoinNamespace(l.out.res.Result.val.PluginMetrics[i].ns) :
             i \in DOMAIN l.out.res.Result.val.PluginMetrics}
    ELSE {}

\* Returned, noting which instance put what
ReturnedShared ==
    /\ last.op # "none"
    /\ last' = NoOperation(h, metricCache)
    /\ inst' = [inst EXCEPT !.putBy =
                  [k \in DOMAIN inst.putBy \cup PutKeys(last) |->
                      IF k \in PutKeys(last) THEN inst.cur ELSE inst.putBy[k]]]
    /\ UNCHANGED <<h, metricCache, wire, pc, reqId, slot, posted, cm>>

\* mutant: every instance has a cache of its own, empty at first use
SwitchClientMutOwnCache ==
    /\ Idle
    /\ h' = inst.other
    /\ inst' = [inst EXCEPT !.cur = 3 - @, !.other = h]
    /\ last' = NoOperation(inst.other, <<>>)
    /\ metricCache' = <<>>
    /\ UNCHANGED <<wire, pc, reqId, slot, posted, cm>>

\* the caller turns to its other instance: the handles swap, the cache is
\* not part of a handle and stays
SwitchClient ==
    /\ Idle
    /\ h' = inst.other
    /\ inst' = [inst EXCEPT !.cur = 3 - @, !.other = h]
    /\ last' = NoOperation(inst.other, metricCache)
    /\ UNCHANGED <<metricCache, wire, pc, reqId, slot, posted, cm>>

NextShared ==
    \/ ReturnedShared
    \/ SwitchClient
    \/ DoCollectShared

SpecShared == InitShared /\ [][NextShared]_vars

(* ------------------------------ SpecConc ------------------------------ *)
\* Goroutines sharing the client, each inside call() or inside a
\* CollectMetrics of one namespace. The read of h.id at marshalling is a
\* plain read racing with atomic.AddUint64: it yields the counter as it is
\* before or after a concurrent add, which the interleaving of Marshal
\* with Receive covers. metricCache.get and metricCache.put are each one
\* step: the cache synchronizes its readers and writers.
\* cm[t].stage: "none" (not in CollectMetrics), "missed" (the lookup
\* missed, call() is next), "calling" (inside call()), "done" (returned:
\* ret, err). cm[t].answer is the metric the plugin sent back, if any.
Started ==
    Len(posted) + Cardinality({t \in Threads : pc[t] = "marshalled"})

\* the first and second loop of CollectMetrics(<<[ns, cfg]>>) and the
\* encoding of its arguments: a hit returns the cached metric, a miss goes
\* on to call()
CmLookup(t) ==
    /\ pc[t] = "idle"
    /\ cm[t].stage = "none"
    /\ h.pluginType = "collector"
    /\ \E ns \in Namespaces, cfg \in Configs, encOk \in BOOLEAN :
         LET mts        == <<[ns |-> ns, cfg |-> cfg]>>
             fromCache  == FromCache(metricCache, mts)
             fromPlugin == FromPlugin(NilOutHits(metricCache, mts))
             out == Encode(h.encoder, [PluginMetricTypes |-> fromPlugin], encOk)
         IN  /\ Len(fromPlugin) = 0 => encOk
             /\ cm' = [cm EXCEPT ![t] =
                   IF Len(fromPlugin) = 0
                   THEN [stage |-> "done", ns |-> ns, answer |-> NilMetric,
                         ret |-> fromCache, err |-> NilErr]
                   ELSE IF ~out.ok
                   THEN [stage |-> "done", ns |-> ns, answer |-> NilMetric,
                         ret |-> <<>>, err |-> Err("EncodeFailed", "")]
                   ELSE [stage |-> "missed", ns |-> ns, answer |-> NilMetric,
                         ret |-> fromCache, err |-> NilErr]]
    /\ UNCHANGED <<h, metricCache, wire, last, pc, reqId, slot, posted, inst>>

\* json.Marshal of the envelope: reads h.id
Marshal(t) ==
    /\ pc[t] = "idle"
    /\ cm[t].stage # "calling"
    /\ Started < MaxConcCalls
    /\ reqId' = [reqId EXCEPT ![t] = h.id]
    /\ pc' = [pc EXCEPT ![t] = "marshalled"]
    /\ cm' = [cm EXCEPT ![t].stage = IF @ = "missed" THEN "calling" ELSE @]
    /\ UNCHANGED <<h, metricCache, wire, last, slot, posted, inst>>

\* client.Post puts the request on the wire; ok = FALSE: it fails or times
\* out and call() returns the error
Post(t) ==
    /\ pc[t] = "marshalled"
    /\ \E ok \in BOOLEAN :
        /\ posted' = Append(posted,
                            [id |-> reqId[t], done |-> ~ok, ok |-> FALSE,
                             by |-> t, collect |-> cm[t].stage = "calling"])
        /\ slot' = [slot EXCEPT ![t] = Len(posted) + 1]
        /\ pc' = [pc EXCEPT ![t] = IF ok THEN "posted" ELSE "idle"]
    /\ UNCHANGED <<h, metricCache, wire, last, reqId, cm, inst>>

\* the response envelope deserializes: the counter is advanced atomically
\* and call() returns the envelope
Receive(t) ==
    /\ pc[t] = "posted"
    /\ h' = [h EXCEPT !.id = AtomicAddUint64(h.id, 1)]
    /\ posted' = [posted EXCEPT ![slot[t]].done = TRUE, ![slot[t]].ok = TRUE]
    /\ pc' = [pc EXCEPT ![t] = "idle"]
    /\ UNCHANGED <<metricCache, wire, last, reqId, slot, cm, inst>>

\* the response envelope does not deserialize: call() returns the error
ReceiveFails(t) ==
    /\ pc[t] = "posted"
    /\ posted' = [posted EXCEPT ![slot[t]].done = TRUE]
    /\ pc' = [pc EXCEPT ![t] = "idle"]
    /\ UNCHANGED <<h, metricCache, wire, last, reqId, slot, cm, inst>>

\* mutant: the reply is returned but not put into the cache
CmStoreMutNoPut(t) ==
    /\ cm[t].stage = "calling"
    /\ pc[t] = "idle"
    /\ \E shape \in Shapes, d \in Data :
         LET m == [ns |-> cm[t].ns, data |-> d]
         IN  /\ shape = "reply"
             /\ posted[slot[t]].ok
             /\ cm' = [cm EXCEPT ![t] =
                   [stage |-> "done", ns |-> cm[t].ns, answer |-> m,
                    ret |-> cm[t].ret \o <<m>>, err |-> NilErr]]
             /\ UNCHANGED metricCache
    /\ UNCHANGED <<h, wire, last, pc, reqId, slot, posted, inst>>

\* call() has returned to CollectMetrics: on an error, return it; else
\* check the result, decode the reply of the plugin (one metric of the
\* namespace asked for, or no usable payload), put it into the cache and
\* return it after the hits
CmStore(t) ==
    /\ cm[t].stage = "calling"
    /\ pc[t] = "idle"
    /\ \E shape \in Shapes, d \in Data :
         LET m       == [ns |-> cm[t].ns, data |-> d]
             payload == Payload(h, shape, [PluginMetrics |-> <<m>>])
             mtr     == Decode(h.encoder, payload)
             fail(e) == [stage |-> "done", ns |-> cm[t].ns,
                         answer |-> NilMetric, ret |-> <<>>, err |-> e]
         IN  /\ (shape # "reply" \/ ~posted[slot[t]].ok) => d = "d1"
             /\ ~posted[slot[t]].ok => shape = "empty"
             /\ IF ~posted[slot[t]].ok
                THEN /\ cm' = [cm EXCEPT ![t] = fail(Err("CallFailed", ""))]
                     /\ UNCHANGED metricCache
                ELSE IF payload.len = 0
                THEN /\ cm' = [cm EXCEPT ![t] =
                            fail(ErrorsNew("Invalid response: result is 0"))]
                     /\ UNCHANGED metricCache
                ELSE IF ~mtr.ok
                THEN /\ cm' = [cm EXCEPT ![t] = fail(Err("DecodeFailed", ""))]
                     /\ UNCHANGED metricCache
                ELSE /\ metricCache' = PutAll(metricCache, mtr.val.PluginMetrics)
                     /\ cm' = [cm EXCEPT ![t] =
                            [stage |-> "done", ns |-> cm[t].ns, answer |-> m,
                             ret |-> cm[t].ret \o mtr.val.PluginMetrics,
                             err |-> NilErr]]
    /\ UNCHANGED <<h, wire, last, pc, reqId, slot, posted, inst>>

NextConc ==
    \E t \in Threads :
        \/ Marshal(t)
        \/ Post(t)
        \/ Receive(t)
        \/ ReceiveFails(t)
        \/ CmLookup(t)
        \/ CmStore(t)

SpecConc == Init /\ [][NextConc]_vars

(* ============================== claims ================================ *)
\* what the formulas read of the operation that returned last
Sent == last.out.sent
Collected == last.op = "CollectMetrics"
KeyOf(m) == JoinNamespace(m.ns)
AllCached(cache, mts) == \A i \in DOMAIN mts : KeyOf(mts[i]) \in DOMAIN cache
NoneCached(cache, mts) == \A i \in DOMAIN mts : KeyOf(mts[i]) \notin DOMAIN cache
\* the plugin metric types that ask for all of mts, in order
AsTypes(mts) ==
    [i \in 1..Len(mts) |-> [Namespace_ |-> mts[i].ns, Config_ |-> mts[i].cfg]]
\* the metrics of the plugin reply a successful CollectMetrics decoded
ReplyMetrics ==
    IF Collected /\ last.out.called = "ok" /\ last.out.err = NilErr
    THEN last.out.res.Result.val.PluginMetrics ELSE <<>>
\* the last metric of reply with the namespace of reply[i]
LastOfNamespace(reply, i) ==
    LET same == {j \in DOMAIN reply : KeyOf(reply[j]) = KeyOf(reply[i])}
    IN  reply[CHOOSE j \in same : \A k \in same : k <= j]

\* C1: a CollectMetrics whose every namespace is cached sends no request
\* and returns, slot for slot, the cached metric of each requested
\* namespace: as many elements as the request has.
C1_AllCachedNoRequest ==
    (Collected /\ AllCached(last.cache0, last.arg)) =>
        /\ Sent = <<>>
        /\ last.out.called = "none"
        /\ last.out.err = NilErr
        /\ Len(last.out.ret) = Len(last.arg)
        /\ \A i \in 1..Len(last.arg) :
              last.out.ret[i] = last.cache0[KeyOf(last.arg[i])]

C1_Witness ==
    /\ Collected
    /\ Len(last.arg) = 2
    /\ AllCached(last.cache0, last.arg)
    /\ last.arg[1].ns # last.arg[2].ns
    /\ last.out.ret[1] # last.out.ret[2]

\* C2 as stated: a CollectMetrics with no namespace cached sends exactly
\* one Collector.CollectMetrics request carrying all of the request, and
\* on success every metric of the reply is in the cache under its joined
\* namespace.
C2_Original ==
    (Collected /\ NoneCached(last.cache0, last.arg)) =>
        /\ Len(Sent) = 1
        /\ Sent[1].method = "Collector.CollectMetrics"
        /\ Sent[1].params[1].val.PluginMetricTypes = AsTypes(last.arg)
        /\ last.out.err = NilErr =>
              \A i \in DOMAIN ReplyMetrics :
                  /\ KeyOf(ReplyMetrics[i]) \in DOMAIN metricCache
                  /\ metricCache[KeyOf(ReplyMetrics[i])] = ReplyMetrics[i]

\* C2 amended: a CollectMetrics of a non-empty request with no namespace
\* cached sends at most one request, exactly one when the arguments encode
\* and the envelope serializes; the request is Collector.CollectMetrics
\* carrying all of the request in order; on success the cache holds, under
\* every joined namespace of the reply, the last reply metric of that
\* namespace.
C2_NoneCachedOneRequest ==
    (Collected /\ last.arg # <<>> /\ NoneCached(last.cache0, last.arg)) =>
        /\ Len(Sent) <= 1
        /\ (last.encOk /\ last.out.err.kind # "MarshalFailed") => Len(Sent) = 1
        /\ \A k \in DOMAIN Sent :
              /\ Sent[k].method = "Collector.CollectMetrics"
              /\ Len(Sent[k].params) = 1
              /\ Sent[k].params[1].val.PluginMetricTypes = AsTypes(last.arg)
        /\ last.out.err = NilErr =>
              \A i \in DOMAIN ReplyMetrics :
                  /\ KeyOf(ReplyMetrics[i]) \in DOMAIN metricCache
                  /\ metricCache[KeyOf(ReplyMetrics[i])]
                        = LastOfNamespace(ReplyMetrics, i)

C2_Witness ==
    /\ Collected
    /\ Len(last.arg) = 2
    /\ NoneCached(last.cache0, last.arg)
    /\ last.out.err = NilErr
    /\ Len(Sent) = 1
    /\ Len(ReplyMetrics) = 2
    /\ ReplyMetrics[1].ns = ReplyMetrics[2].ns
    /\ ReplyMetrics[1] # ReplyMetrics[2]

\* the ids of the requests whose call() succeeded, in wire order
OkIds ==
    LET ok == SelectSeq(wire, LAMBDA w : w.ok)
    IN  [i \in 1..Len(ok) |-> ok[i].id]

\* C3: on a client used sequentially the requests of the successful calls
\* carry the ids 0, 1, ..., N-1 in that order, whatever the operations.
C3_SequentialIds ==
    \A i \in DOMAIN OkIds : OkIds[i] = i - 1

C3_Witness ==
    /\ Len(wire) = 3
    /\ wire[1].ok /\ ~wire[2].ok /\ wire[3].ok
    /\ OkIds = <<0, 1>>

\* C4: a call that fails (envelope not serialized, exchange failed or timed
\* out, response envelope not deserialized) returns an error and leaves the
\* client's id as it was, so the request after a failed one carries the
\* failed one's id.
C4_FailedCallKeepsId ==
    /\ last.out.called = "failed" =>
          /\ last.out.err # NilErr
          /\ last.out.err.kind \in
                {"MarshalFailed", "PostFailed", "EnvelopeDecodeFailed"}
          /\ h.id = last.h0.id
          /\ \A k \in DOMAIN Sent : Sent[k].id = last.h0.id
    /\ \A i \in 1..(Len(wire) - 1) :
          ~wire[i].ok => wire[i + 1].id = wire[i].id

C4_Witness ==
    /\ last.out.called = "failed"
    /\ last.out.err.kind = "EnvelopeDecodeFailed"
    /\ Len(wire) = 3
    /\ wire[1].ok /\ ~wire[2].ok /\ ~wire[3].ok
    /\ h.id = 1

\* C5: with several goroutines calling on one client, no two requests whose
\* call succeeded carry the same id, and once no call is in flight the ids
\* of the successful calls are 0, 1, ..., N-1 with none skipped.
C5_ConcurrentIdsUnique ==
    LET ok == {i \in DOMAIN posted : posted[i].ok}
    IN  /\ \A i \in ok : \A j \in ok : i # j => posted[i].id # posted[j].id
        /\ (\A t \in Threads : pc[t] = "idle") =>
              {posted[i].id : i \in ok} = 0..(Cardinality(ok) - 1)

\* C6: whatever the public operation, a response envelope whose error
\* string is not empty makes the operation return an error carrying that
\* string.
C6_EnvelopeErrorReturned ==
    (last.op # "none" /\ last.out.called = "ok" /\ last.out.res.Error # "") =>
        /\ last.out.err # NilErr
        /\ last.out.err.msg = last.out.res.Error

\* the response GetConfigPolicy got had an empty result payload
PolicyEmptyResult ==
    /\ last.op = "GetConfigPolicy"
    /\ last.out.called = "ok"
    /\ last.out.res.Result.len = 0

\* C7 as stated: GetConfigPolicy on an empty result with an empty error
\* returns a decode failure; on an empty result with a non-empty error it
\* returns an error with that text.
C7_Original ==
    PolicyEmptyResult =>
        /\ last.out.res.Error = "" => last.out.err.kind = "DecodeFailed"
        /\ last.out.res.Error # "" =>
              /\ last.out.err # NilErr
              /\ last.out.err.msg = last.out.res.Error

\* C7 amended: GetConfigPolicy on an empty result never decodes and never
\* returns a nil error or a policy: it returns errors.New of the envelope's
\* error string, whether that string is empty or not.
C7_EmptyResultIsEnvelopeError ==
    PolicyEmptyResult =>
        /\ last.out.err = ErrorsNew(last.out.res.Error)
        /\ last.out.err # NilErr
        /\ last.out.ret = <<>>

C7_Witness ==
    /\ PolicyEmptyResult
    /\ last.out.res.Error = ""
    /\ last.out.err = ErrorsNew("")

\* C8: a CollectMetrics with at least one uncached request whose response
\* has an empty result payload returns an error and no metrics, and leaves
\* the cache as it was.
C8_EmptyResultIsError ==
    (/\ Collected
     /\ ~AllCached(last.cache0, last.arg)
     /\ last.out.called = "ok"
     /\ last.out.res.Result.len = 0) =>
        /\ last.out.err # NilErr
        /\ last.out.ret = <<>>
        /\ metricCache = last.cache0

C8_Witness ==
    /\ Collected
    /\ Len(last.arg) = 2
    /\ KeyOf(last.arg[1]) \in DOMAIN last.cache0
    /\ KeyOf(last.arg[2]) \notin DOMAIN last.cache0
    /\ last.out.called = "ok"
    /\ last.out.res.Result.len = 0
    /\ last.out.err = ErrorsNew("Invalid response: result is 0")

\* C9: Kill, CollectMetrics, Process and Publish suppress no failure: when
\* encoding the arguments fails they return a non-nil error and send no
\* request, and when the dispatch fails they return its error.
C9_NoFailureSuppressed ==
    last.op \in {"Kill", "CollectMetrics", "Process", "Publish"} =>
        /\ ~last.encOk => (last.out.err # NilErr /\ Sent = <<>>)
        /\ last.out.called = "failed" =>
              last.out.err.kind \in
                  {"MarshalFailed", "PostFailed", "EnvelopeDecodeFailed"}

\* the request a SetKey of client c must send: its key under its public key
IsSetKeyRequest(c, req) ==
    /\ req.method = "SessionState.SetKey"
    /\ req.params =
          <<[Key |-> [rsa |-> c.encrypter.rsaPublic, key |-> c.encrypter.Key]]>>

\* C10: a client constructed with secure = true holds a generated key
\* before its first call, no operation changes that key, and every request
\* a SetKey sends is SessionState.SetKey carrying that key encrypted under
\* the public key the client was constructed with.
C10_SecureKeyFixedAndSent ==
    /\ h.encrypter # NilEncrypter =>
          (wire = <<>> /\ h.encrypter.Key \in Keys
                       /\ h.encrypter.rsaPublic \in PubKeys
                       /\ h.encoder.encrypter = h.encrypter)
    /\ [][h.encrypter # NilEncrypter =>
            /\ h'.encrypter = h.encrypter
            /\ h'.encoder = h.encoder
            /\ last'.op = "SetKey" =>
                  \A k \in DOMAIN last'.out.sent :
                      IsSetKeyRequest(h, last'.out.sent[k])]_vars

C10_Witness ==
    /\ h.encrypter # NilEncrypter
    /\ h.encrypter.Key = "k2"
    /\ last.op = "SetKey"
    /\ last.out.called = "ok"
    /\ Len(wire) = 3
    /\ IsSetKeyRequest(h, Sent[1])

Uncached(cache, mts) ==
    SelectSeq(mts, LAMBDA m : KeyOf(m) \notin DOMAIN cache)
\* mts has a cached and an uncached namespace
Mixed(cache, mts) ==
    /\ \E i \in DOMAIN mts : KeyOf(mts[i]) \in DOMAIN cache
    /\ \E i \in DOMAIN mts : KeyOf(mts[i]) \notin DOMAIN cache
\* req is Collector.CollectMetrics asking for exactly the uncached of mts
AsksUncached(req, cache, mts) ==
    /\ req.method = "Collector.CollectMetrics"
    /\ Len(req.params) = 1
    /\ req.params[1].val.PluginMetricTypes = AsTypes(Uncached(cache, mts))

\* C12 as stated: a CollectMetrics of a request that mixes cached and
\* uncached namespaces sends one Collector.CollectMetrics request whose
\* plugin metric types are exactly the uncached requests, with their
\* namespace and configuration, in request order.
C12_Original ==
    (Collected /\ Mixed(last.cache0, last.arg)) =>
        /\ Len(Sent) = 1
        /\ AsksUncached(Sent[1], last.cache0, last.arg)

\* C12 amended: a CollectMetrics of a request that mixes cached and
\* uncached namespaces sends at most one request, exactly one when the
\* arguments encode and the envelope serializes; that request is
\* Collector.CollectMetrics whose plugin metric types are exactly the
\* uncached requests, with their namespace and configuration, in request
\* order, so no cached namespace is asked of the plugin.
C12_MixedAsksUncached ==
    (Collected /\ Mixed(last.cache0, last.arg)) =>
        /\ Len(Sent) <= 1
        /\ (last.encOk /\ last.out.err.kind # "MarshalFailed") => Len(Sent) = 1
        /\ \A k \in DOMAIN Sent :
              /\ AsksUncached(Sent[k], last.cache0, last.arg)
              /\ \A i \in DOMAIN Sent[k].params[1].val.PluginMetricTypes :
                    JoinNamespace(
                        Sent[k].params[1].val.PluginMetricTypes[i].Namespace_)
                    \notin DOMAIN last.cache0

C12_Witness ==
    /\ Collected
    /\ Len(last.arg) = 3
    /\ KeyOf(last.arg[1]) \notin DOMAIN last.cache0
    /\ KeyOf(last.arg[2]) \in DOMAIN last.cache0
    /\ KeyOf(last.arg[3]) \notin DOMAIN last.cache0
    /\ last.arg[1].cfg # last.arg[3].cfg
    /\ Len(Sent) = 1
    /\ Sent[1].params[1].val.PluginMetricTypes =
          <<[Namespace_ |-> last.arg[1].ns, Config_ |-> last.arg[1].cfg],
            [Namespace_ |-> last.arg[3].ns, Config_ |-> last.arg[3].cfg]>>

\* the operations that are not CollectMetrics
OtherOps ==
    {"Ping", "SetKey", "Kill", "GetMetricTypes", "GetConfigPolicy",
     "Process", "Publish"}
\* operation op of OtherOps run on handle hh with the cache being cache
RunOther(op, arg, hh, cache, encOk, o, e, shape) ==
    CASE op = "Ping" -> Ping(hh, cache, Net(o, EmptyBytes, e))
      [] op = "SetKey" -> SetKey(hh, cache, encOk, Net(o, EmptyBytes, e))
      [] op = "Kill" -> Kill(hh, cache, arg[1], encOk, Net(o, EmptyBytes, e))
      [] op = "GetMetricTypes" ->
           GetMetricTypes(hh, cache, Net(o, Payload(hh, shape, MetricTypesReply), e))
      [] op = "GetConfigPolicy" ->
           GetConfigPolicy(hh, cache, Net(o, Payload(hh, shape, PolicyReply), e))
      [] op = "Process" ->
           Process(hh, cache, arg, encOk,
                   Net(o, Payload(hh, shape, ProcessorReply), e))
      [] op = "Publish" ->
           Publish(hh, cache, arg, encOk, Net(o, EmptyBytes, e))
\* the metric under key k is new or has changed in this step
Rewritten(k) ==
    k \notin DOMAIN metricCache \/ metricCache'[k] # metricCache[k]

\* C13: in every step the cached keys are kept; a key is added or its
\* metric replaced only by a CollectMetrics that succeeded with a plugin
\* reply holding a metric of that namespace, which is then the metric
\* cached; every other operation leaves the cache as it is and returns
\* what it returns on an empty cache.
C13_CacheOnlyGrows ==
    [][/\ DOMAIN metricCache \subseteq DOMAIN metricCache'
       /\ \A k \in DOMAIN metricCache' :
             Rewritten(k) =>
                /\ last'.op = "CollectMetrics"
                /\ last'.out.called = "ok"
                /\ last'.out.err = NilErr
                /\ \E i \in DOMAIN last'.out.res.Result.val.PluginMetrics :
                      /\ KeyOf(last'.out.res.Result.val.PluginMetrics[i]) = k
                      /\ last'.out.res.Result.val.PluginMetrics[i]
                            = metricCache'[k]
       /\ last'.op \in OtherOps =>
             /\ metricCache' = metricCache
             /\ \E o \in Outcomes, e \in ErrorStrings, shape \in Shapes :
                   last'.out =
                     [RunOther(last'.op, last'.arg, h, <<>>, last'.encOk,
                               o, e, shape)
                        EXCEPT !.cache = metricCache]]_vars

C13_Witness ==
    /\ Collected
    /\ last.out.err = NilErr
    /\ Cardinality(DOMAIN last.cache0) = 1
    /\ Cardinality(DOMAIN metricCache) = 2
    /\ \E k \in DOMAIN last.cache0 : metricCache[k] # last.cache0[k]

\* the last metric of ms with the namespace of key k
LastWithKey(ms, k) ==
    LET same == {j \in DOMAIN ms : KeyOf(ms[j]) = k}
    IN  ms[CHOOSE j \in same : \A i \in same : i <= j]

\* C14: when a CollectMetrics of a single-namespace request has succeeded
\* and the namespace is cached, the same request made again straight away
\* sends nothing, changes neither the call id nor the cache, and returns
\* exactly one metric: the metric of that namespace the first call
\* returned (the last such metric if it returned several), so the same
\* list when the first call returned one metric.
C14_SecondCallFromCache ==
    [][(/\ last.op = "CollectMetrics"
        /\ last'.op = "CollectMetrics"
        /\ Len(last.arg) = 1
        /\ last'.arg = last.arg
        /\ last.out.err = NilErr
        /\ KeyOf(last.arg[1]) \in DOMAIN metricCache)
       =>
       (/\ last'.out.sent = <<>>
        /\ last'.out.called = "none"
        /\ last'.out.err = NilErr
        /\ h' = h
        /\ metricCache' = metricCache
        /\ Len(last'.out.ret) = 1
        /\ last'.out.ret[1] = LastWithKey(last.out.ret, KeyOf(last.arg[1]))
        /\ Len(last.out.ret) = 1 => last'.out.ret = last.out.ret)]_vars

C14_Witness ==
    /\ Collected
    /\ Len(last.arg) = 1
    /\ Len(wire) = 1
    /\ wire[1].ok
    /\ h.id = 1
    /\ last.h0.id = 1
    /\ last.out.called = "none"
    /\ last.out.ret = <<metricCache[KeyOf(last.arg[1])]>>
    /\ last.out.ret[1].data = "d2"

\* the ways a CollectMetrics fails: encoding the arguments, the dispatch
\* (serializing, posting, deserializing the envelope), an empty result,
\* decoding the reply
CollectFailures ==
    {"EncodeFailed", "MarshalFailed", "PostFailed", "EnvelopeDecodeFailed",
     "errors.New", "DecodeFailed"}

\* C15: a CollectMetrics that returns an error fails in one of the ways of
\* CollectFailures, returns no metric at all, and leaves the cache, keys
\* and metrics, exactly as it was before the call.
C15_FailureKeepsCache ==
    (Collected /\ last.out.err # NilErr) =>
        /\ last.out.err.kind \in CollectFailures
        /\ last.out.ret = <<>>
        /\ metricCache = last.cache0

C15_Witness ==
    /\ Collected
    /\ last.out.err.kind = "DecodeFailed"
    /\ Mixed(last.cache0, last.arg)
    /\ last.out.ret = <<>>
    /\ metricCache # <<>>

\* C16: on the client as it is, a call whose exchange succeeds and whose
\* envelope deserializes returns that envelope, result and error string
\* as received, with a nil error, having posted one request and advanced
\* the id by exactly one, whatever the error string is; and every
\* operation whose call returned without error holds such an envelope
\* and has advanced the id by one.
C16_CallIgnoresEnvelopeError ==
    /\ \A e \in ErrorStrings, shape \in Shapes :
          LET net == Net("ok", Payload(h, shape, PolicyReply), e)
              c   == call(h, "SessionState.Ping", <<>>, net)
          IN  /\ c.err = NilErr
              /\ ~c.res.nil
              /\ c.res.Error = e
              /\ c.res.Result = net.Result
              /\ Len(c.sent) = 1
              /\ c.h = [h EXCEPT !.id = h.id + 1]
    /\ last.out.called = "ok" =>
          /\ ~last.out.res.nil
          /\ Len(Sent) = 1
          /\ h = [last.h0 EXCEPT !.id = last.h0.id + 1]

C16_Witness ==
    /\ last.op = "Ping"
    /\ last.out.called = "ok"
    /\ last.out.res.Error = "boom"
    /\ last.out.err = NilErr
    /\ last.h0.id = 1
    /\ h.id = 2

\* C18: when CollectMetrics returns, with or without an error, the
\* caller's slice has its length, every slot whose namespace was cached
\* at lookup is nil, and every other slot holds the request it held.
C18_SliceHitsNilled ==
    Collected =>
        /\ Len(last.out.mts) = Len(last.arg)
        /\ \A i \in 1..Len(last.arg) :
              IF KeyOf(last.arg[i]) \in DOMAIN last.cache0
              THEN last.out.mts[i] = NilMetric
              ELSE last.out.mts[i] = last.arg[i]

C18_Witness ==
    /\ Collected
    /\ last.out.err.kind = "PostFailed"
    /\ Len(last.arg) = 2
    /\ last.out.mts[1] = NilMetric
    /\ last.out.mts[2] = last.arg[2]
    /\ last.arg[1] # NilMetric

\* the cached metric of every request of mts that has one, in request order
RECURSIVE HitsOf(_, _)
HitsOf(cache, mts) ==
    IF mts = <<>> THEN <<>>
    ELSE (IF KeyOf(Head(mts)) \in DOMAIN cache
          THEN <<cache[KeyOf(Head(mts))]>> ELSE <<>>)
         \o HitsOf(cache, Tail(mts))

\* C19: a CollectMetrics that succeeds returns the metrics it found in
\* the cache, in request order, followed by the metrics of the plugin
\* reply, in reply order, as many as there are hits and reply metrics
\* whatever the length of the request; every namespace of the reply,
\* requested or not, is then cached with the last reply metric of that
\* namespace.
C19_HitsThenReply ==
    (Collected /\ last.out.err = NilErr) =>
        /\ last.out.ret = HitsOf(last.cache0, last.arg) \o ReplyMetrics
        /\ Len(last.out.ret) =
              Cardinality({i \in DOMAIN last.arg :
                              KeyOf(last.arg[i]) \in DOMAIN last.cache0})
              + Len(ReplyMetrics)
        /\ \A i \in DOMAIN ReplyMetrics :
              /\ KeyOf(ReplyMetrics[i]) \in DOMAIN metricCache
              /\ metricCache[KeyOf(ReplyMetrics[i])]
                    = LastOfNamespace(ReplyMetrics, i)

C19_Witness ==
    /\ Collected
    /\ last.out.err = NilErr
    /\ Len(last.arg) = 2
    /\ KeyOf(last.arg[1]) \in DOMAIN last.cache0
    /\ KeyOf(last.arg[2]) \notin DOMAIN last.cache0
    /\ Len(last.out.ret) = 3
    /\ last.out.ret[1] = last.cache0[KeyOf(last.arg[1])]
    /\ last.out.ret[2].ns = last.arg[1].ns
    /\ last.out.ret[2] # last.out.ret[1]
    /\ metricCache[KeyOf(last.arg[1])] = last.out.ret[2]
    /\ last.out.ret[3].ns = last.arg[2].ns

\* the requests goroutine t posted from inside its CollectMetrics
CollectPosts(t) ==
    {i \in DOMAIN posted : posted[i].by = t /\ posted[i].collect}
\* the goroutines whose CollectMetrics got a metric from the plugin
Fetched == {t \in Threads : cm[t].answer # NilMetric}

\* C17: a goroutine's CollectMetrics of one namespace posts at most one
\* request, and returns just the metric the plugin sent it whenever the
\* plugin sent one; when two goroutines have both returned from a
\* CollectMetrics of the same namespace, each that got an answer or a hit
\* has returned one metric of that namespace without error, and if the
\* plugin answered any of them the namespace is cached with exactly one
\* of the metrics the plugin sent.
C17_ConcurrentCollectConsistent ==
    /\ \A t \in Threads :
          /\ Cardinality(CollectPosts(t)) <= 1
          /\ t \in Fetched =>
                /\ cm[t].stage = "done"
                /\ cm[t].err = NilErr
                /\ cm[t].ret = <<cm[t].answer>>
    /\ \A t \in Threads, u \in Threads :
          (/\ t # u
           /\ cm[t].stage = "done"
           /\ cm[u].stage = "done"
           /\ cm[t].ns = cm[u].ns)
          =>
          /\ cm[t].err = NilErr =>
                (Len(cm[t].ret) = 1 /\ cm[t].ret[1].ns = cm[t].ns)
          /\ Fetched # {} =>
                /\ JoinNamespace(cm[t].ns) \in DOMAIN metricCache
                /\ metricCache[JoinNamespace(cm[t].ns)]
                      \in {cm[w].answer : w \in Fetched}

C17_Witness ==
    /\ cm[1].stage = "done"
    /\ cm[2].stage = "done"
    /\ cm[1].ns = cm[2].ns
    /\ Fetched = {1, 2}
    /\ cm[1].answer # cm[2].answer
    /\ posted[slot[1]].id = posted[slot[2]].id
    /\ metricCache[JoinNamespace(cm[1].ns)] = cm[1].answer
    /\ slot[1] < slot[2]

\* C20: a CollectMetrics on one client instance whose requested
\* namespaces were all put into the cache by a CollectMetrics on the
\* other instance finds them all cached, sends no request, leaves its
\* call id as it is and returns, slot for slot, the metrics the other
\* instance cached.
C20_CacheSharedByInstances ==
    (/\ Collected
     /\ last.arg # <<>>
     /\ \A i \in DOMAIN last.arg :
           /\ KeyOf(last.arg[i]) \in DOMAIN inst.putBy
           /\ inst.putBy[KeyOf(last.arg[i])] # inst.cur)
    =>
    (/\ AllCached(last.cache0, last.arg)
     /\ Sent = <<>>
     /\ last.out.called = "none"
     /\ last.out.err = NilErr
     /\ h = last.h0
     /\ Len(last.out.ret) = Len(last.arg)
     /\ \A i \in DOMAIN last.arg :
           last.out.ret[i] = last.cache0[KeyOf(last.arg[i])])

C20_Witness ==
    /\ Collected
    /\ inst.cur = 2
    /\ h.id = 0
    /\ inst.other.id = 1
    /\ h.encrypter # inst.other.encrypter
    /\ Len(last.arg) = 2
    /\ last.arg[1].ns # last.arg[2].ns
    /\ \A i \in DOMAIN last.arg :
          /\ KeyOf(last.arg[i]) \in DOMAIN inst.putBy
          /\ inst.putBy[KeyOf(last.arg[i])] = 1
    /\ Sent = <<>>
    /\ Len(wire) = 1
    /\ Len(last.out.ret) = 2
    /\ last.out.ret[1].data = "d2"

====
